---- MODULE Spec2Model ----
(***************************************************************************)
(* The rate-limited request scheduler of src/game/rate_limiter.py          *)
(* (class RateLimiter) and the manager objects that each construct one.    *)
(*                                                                         *)
(* Every action is one step of an asyncio task: the code that runs between *)
(* two suspension points (await of a pending future, asyncio.sleep, the    *)
(* awaited remote operation).  Coroutines that never suspend               *)
(* (start_queue_processor, Queue.put on the unbounded queue,               *)
(* handle_response) run inside the step of their caller.                   *)
(*                                                                         *)
(* Durations and the fixed-point backoff multiplier are counted in         *)
(* sixteenths: Sec is one second and also the multiplier 1.0, so that      *)
(* 1.5, 2.25, 3.375 and every retryAfter * multiplier product are exact.   *)
(***************************************************************************)
EXTENDS Integers, Sequences, FiniteSets, TLC

\* ------------------------------------------------------------------ bounds
NumLimiters == 2        \* RateLimiter objects that can exist (one per manager)
NumCallers == 2         \* concurrent execute_with_retry invocations
MaxRetriesArg == 3      \* largest max_retries argument a caller passes
MaxTicks == 4           \* how often the clock advances
TickStep == 4           \* sixteenths of a second per clock advance

\* ------------------------------------------------------------------ units
Sec == 4 * 4
\* Python's None and a present value, as a sequence of length 0 or 1
None == <<>>
Some(v) == <<v>>

AllLimiters == 1..NumLimiters
Callers == 1..NumCallers

Max(a, b) == IF a >= b THEN a ELSE b
Min(a, b) == IF a <= b THEN a ELSE b
RECURSIVE Pow2(_)
Pow2(n) == IF n = 0 THEN 1 ELSE 2 * Pow2(n - 1)
Range(s) == {s[i] : i \in DOMAIN s}
Last(q) == q[Len(q)]

\* ------------------------------------------------------- program constants
DefaultBurstLimit == 30
DefaultRatePerSecond == 2
MultiplierCap == 5
DefaultRetryAfter == 1
ParseFailureDelay == 1
DefaultMaxRetries == 3

\* ------------------------------------------------------------- responses
\* A response is [status_code, content].  The content either cannot be
\* decoded (json.loads or .decode() raises) or decodes to an error.data
\* object in which every field is None (absent) or Some(value); a retryAfter
\* value is a number or something that cannot be multiplied.
Number(n) == [numeric |-> TRUE, value |-> n]
NotANumber == [numeric |-> FALSE, value |-> 0]

Payload(lb, lps, rem, rst, ra) ==
    [decodable |-> TRUE, limitBurst |-> lb, limitPerSecond |-> lps,
     remaining |-> rem, reset |-> rst, retryAfter |-> ra]

Undecodable ==
    [decodable |-> FALSE, limitBurst |-> None, limitPerSecond |-> None,
     remaining |-> None, reset |-> None, retryAfter |-> None]

Resp(status, content) == [status_code |-> status, content |-> content]

\* the test fixture MOCK_RATE_LIMIT_RESPONSE: retryAfter 1.5
MockRetryAfter == (3 * Sec) \div 2
MockRateLimitPayload ==
    Payload(Some(10), Some(2), Some(0), Some("2024-01-01T00:00:00Z"),
            Some(Number(MockRetryAfter)))

\* ------------------------------------------------------- RateLimiter.__init__
min_request_interval_of(rate) == Sec \div rate

InitLimiter ==
    [burst_limit |-> DefaultBurstLimit,
     rate_per_second |-> DefaultRatePerSecond,
     min_request_interval |-> min_request_interval_of(DefaultRatePerSecond),
     remaining_requests |-> DefaultBurstLimit,
     last_request_time |-> 0,
     reset_time |-> None,
     backoff_multiplier |-> Sec,
     running |-> TRUE]

\* ---------------------------------------------------- handle_response
\* a lookup that never finds the key
GetDefault(field, default) == default

\* dict.get(key, default)
Get(field, default) == IF field = None THEN default ELSE field[1]

\* a multiplier that doubles
GrowMultiplierDouble(m) == Min(m * 2, MultiplierCap * Sec)

\* line 226
GrowMultiplier(m) == Min((m * 3) \div 2, MultiplierCap * Sec)

\* datetime.fromisoformat(reset_str.replace('Z', '+00:00')) for the reset
\* strings of the model: the datetime it returns, or None when it raises
\* ValueError
MockReset == "2024-01-01T00:00:00Z"
InvalidReset == "invalid"

DateTime(year, month, day, utcoffset) ==
    [year |-> year, month |-> month, day |-> day, hour |-> 0, minute |-> 0,
     second |-> 0, utcoffset |-> utcoffset]

FromIsoFormat(s) ==
    IF s = MockReset THEN Some(DateTime(2024, 1, 1, 0)) ELSE None

\* The 429 branch, statement by statement (lines 208-237): an exception
\* leaves the assignments already made in place and returns the flat
\* default delay.
HandleThrottle(st, content) ==
    IF ~content.decodable
    THEN [st |-> st, wait |-> Some(ParseFailureDelay * Sec)]
    ELSE LET s1 == [st EXCEPT
                      !.burst_limit = Get(content.limitBurst, st.burst_limit),
                      !.rate_per_second = Get(content.limitPerSecond, st.rate_per_second),
                      !.remaining_requests = Get(content.remaining, 0)]
             reset_str == content.reset
             retry_after == Get(content.retryAfter, Number(DefaultRetryAfter * Sec))
         IN  IF reset_str # None /\ FromIsoFormat(reset_str[1]) = None
             THEN [st |-> s1, wait |-> Some(ParseFailureDelay * Sec)]
             ELSE LET s2 == IF reset_str # None
                            THEN [s1 EXCEPT !.reset_time = FromIsoFormat(reset_str[1])]
                            ELSE s1
                  IN  IF ~retry_after.numeric
                      THEN [st |-> s2, wait |-> Some(ParseFailureDelay * Sec)]
                      ELSE [st |-> [s2 EXCEPT !.backoff_multiplier =
                                        GrowMultiplier(s2.backoff_multiplier)],
                            wait |-> Some((retry_after.value * s2.backoff_multiplier)
                                          \div Sec)]

\* a classifier that leaves the multiplier alone on a non-429 response
HandleResponseKeepBackoff(st, response) ==
    IF response.status_code = 429
    THEN HandleThrottle(st, response.content)
    ELSE [st |-> st, wait |-> None]

\* lines 204-241
HandleResponse(st, response) ==
    IF response.status_code = 429
    THEN HandleThrottle(st, response.content)
    ELSE [st |-> [st EXCEPT !.backoff_multiplier = Sec], wait |-> None]

\* Python truthiness of the Optional[float] returned by handle_response
Truthy(wait) == wait # None /\ wait[1] # 0

\* the quota fields of a limiter (lines 29-37)
Limits(st) ==
    [burst_limit |-> st.burst_limit, rate_per_second |-> st.rate_per_second,
     min_request_interval |-> st.min_request_interval,
     remaining_requests |-> st.remaining_requests, reset_time |-> st.reset_time,
     backoff_multiplier |-> st.backoff_multiplier]

\* one handle_response call: the quota before it, its argument, its result
Classification(st, response, wait) ==
    [before |-> Limits(st), response |-> response, wait |-> wait]

\* ------------------------------------------------------------------ state
VARIABLES
    now,             \* time.time()
    rl,              \* per limiter: the fields set in RateLimiter.__init__
    request_queue,   \* per limiter: self._request_queue, entries in put order
    task,            \* per limiter: self._queue_processor_task and where it is
    stop,            \* per limiter: where a cleanup() call is
    ctx,             \* per caller: the locals of one execute_with_retry call
    future,          \* per caller: the asyncio.Future of its current attempt
    puts,            \* per limiter: number of put() calls so far
    dispatched,      \* per limiter: put numbers in the order callbacks were invoked
    starts,          \* per limiter: start times of the two latest invocations
    stopQueued,      \* per limiter: the queue's entries when cleanup() was called
    stopHeld,        \* per limiter: the entry the consumer held, in its pacing
                     \*   sleep or in flight, when cleanup() was called
    invoked,         \* per caller: invocations of its operation
    sleeps,          \* per caller: durations passed to asyncio.sleep
    outcomes,        \* per caller: what each invocation did
    classified,      \* per limiter: the latest handle_response call
    abandoned,       \* per limiter: put numbers whose caller was cancelled
                     \*   while the entry was in the queue
    interrupted,     \* per limiter: put numbers whose caller was cancelled
                     \*   while the operation was in flight
    consumers        \* per limiter: _process_queue tasks created and not ended

vars == <<now, rl, request_queue, task, stop, ctx, future,
          puts, dispatched, starts, stopQueued, stopHeld, invoked, sleeps,
          outcomes, classified, abandoned, interrupted, consumers>>

\* ---------------------------------------------------------------- outcomes
Raises == None
Returns(response) == Some(response)

ApiError(n) == [type |-> "ApiError", n |-> n]
NotRunningError == [type |-> "RuntimeError", n |-> 0]

Ok200 == Resp(200, Undecodable)
Created201 == Resp(201, Undecodable)
NotFound404 == Resp(404, Undecodable)
ServerError500 == Resp(500, Undecodable)
RateLimited429 == Resp(429, MockRateLimitPayload)

\* a 429 whose body json.loads rejects
Malformed429 == Resp(429, Undecodable)

\* a 429 whose body asks for no delay
ZeroHint429 ==
    Resp(429, Payload(Some(10), Some(2), Some(0), Some(MockReset), Some(Number(0))))

AllOutcomes ==
    {Raises, Returns(Ok200), Returns(Created201), Returns(NotFound404),
     Returns(ServerError500), Returns(RateLimited429)}

\* ------------------------------------------------------------ initial state
StartTime == Sec    \* time.time() is far beyond one pacing interval

NoTask == [state |-> "none", call |-> None, wake |-> 0, must_cancel |-> FALSE]
NoFuture == [state |-> "none", result |-> None, exception |-> None]
NoResult == [returned |-> None, raised |-> None]

InitCtx(c) ==
    [pc |-> "idle", limiter |-> 1, task_name |-> c,
     max_retries |-> DefaultMaxRetries, attempt |-> 0,
     last_error |-> None, last_response |-> None, result |-> NoResult]

Init ==
    /\ now = StartTime
    /\ rl = [l \in AllLimiters |-> InitLimiter]
    /\ request_queue = [l \in AllLimiters |-> <<>>]
    /\ task = [l \in AllLimiters |-> NoTask]
    /\ stop = [l \in AllLimiters |-> "idle"]
    /\ ctx = [c \in Callers |-> InitCtx(c)]
    /\ future = [c \in Callers |-> NoFuture]
    /\ puts = [l \in AllLimiters |-> 0]
    /\ dispatched = [l \in AllLimiters |-> <<>>]
    /\ starts = [l \in AllLimiters |-> <<>>]
    /\ stopQueued = [l \in AllLimiters |-> {}]
    /\ stopHeld = [l \in AllLimiters |-> {}]
    /\ invoked = [c \in Callers |-> 0]
    /\ sleeps = [c \in Callers |-> <<>>]
    /\ outcomes = [c \in Callers |-> <<>>]
    /\ classified = [l \in AllLimiters |-> None]
    /\ abandoned = [l \in AllLimiters |-> {}]
    /\ interrupted = [l \in AllLimiters |-> {}]
    /\ consumers = [l \in AllLimiters |-> 0]

\* ------------------------------------------------- start_queue_processor
TaskDone(t) == t.state = "done"
TaskAlive(t) == t.state \in {"polling", "got", "pacing", "inflight", "recovering"}

\* a start that creates a task on every call
SpawnsAlways(t) == TRUE

\* line 49
Spawns(t) == t.state = "none" \/ TaskDone(t)

StartQueueProcessor(t) ==
    IF Spawns(t)
    THEN [state |-> "polling", call |-> None, wake |-> 0, must_cancel |-> FALSE]
    ELSE t

\* ------------------------------------------------------ execute_with_retry
\* a loop that runs once more than max_retries
AttemptsRemainInclusive(attempt, max_retries) == attempt <= max_retries

\* line 140
AttemptsRemain(attempt, max_retries) == attempt < max_retries

Backoff(attempt) == Pow2(attempt) * Sec

\* a retry test that takes every error status
RetryableAnyError(status_code) == status_code >= 400

\* line 172
Retryable(status_code) ==
    (500 <= status_code /\ status_code < 600) \/ status_code = 429

\* lines 196-202
Terminal(x, no_response) ==
    [message |-> [task_name |-> x.task_name, attempts |-> x.max_retries,
                  no_response |-> no_response],
     cause |-> x.last_error]

Finish(x) ==
    IF x.last_error # None
    THEN [x EXCEPT !.pc = "raised",
                   !.result = [returned |-> None, raised |-> Some(Terminal(x, FALSE))]]
    ELSE IF x.last_response # None
    THEN [x EXCEPT !.pc = "returned",
                   !.result = [returned |-> x.last_response, raised |-> None]]
    ELSE [x EXCEPT !.pc = "raised",
                   !.result = [returned |-> None, raised |-> Some(Terminal(x, TRUE))]]

\* await asyncio.sleep(d): the coroutine suspends with the locals x
Sleep(c, x, d) ==
    /\ ctx' = [ctx EXCEPT ![c] = [x EXCEPT !.pc = "sleeping"]]
    /\ sleeps' = [sleeps EXCEPT ![c] = Append(@, d)]

\* asyncio.Queue() of line 40 is built without a maxsize: its put (line 118)
\* waits only while the queue is full, and a queue with maxsize <= 0 never is
MaxSize == 0

\* a queue that holds one entry at most
FullBounded(q) == Len(q) >= 1

Full(q) == IF MaxSize <= 0 THEN FALSE ELSE Len(q) >= MaxSize

\* Top of the while loop (line 140) with locals x, up to the next suspension:
\* queue_request puts the call and awaits its future, or raises RuntimeError
\* (caught at line 185), or the loop is over.
Iterate(c, x) ==
    LET l == x.limiter IN
    IF AttemptsRemain(x.attempt, x.max_retries)
    THEN IF rl[l].running
         THEN /\ ~Full(request_queue[l])
              /\ ctx' = [ctx EXCEPT ![c] = [x EXCEPT !.pc = "awaiting"]]
              /\ future' = [future EXCEPT ![c] =
                              [state |-> "pending", result |-> None, exception |-> None]]
              /\ task' = [task EXCEPT ![l] = StartQueueProcessor(@)]
              /\ consumers' = [consumers EXCEPT ![l] =
                                 IF Spawns(task[l]) THEN @ + 1 ELSE @]
              /\ request_queue' = [request_queue EXCEPT ![l] =
                                     Append(@, [caller |-> c, n |-> puts[l] + 1])]
              /\ puts' = [puts EXCEPT ![l] = @ + 1]
              /\ sleeps' = sleeps
         ELSE /\ Sleep(c, [x EXCEPT !.last_error = Some(NotRunningError)],
                       Backoff(x.attempt))
              /\ UNCHANGED <<future, task, request_queue, puts, consumers>>
    ELSE /\ ctx' = [ctx EXCEPT ![c] = Finish(x)]
         /\ UNCHANGED <<future, task, request_queue, puts, sleeps, consumers>>

ExecuteWithRetry(c, l, max_retries) ==
    /\ ctx[c].pc = "idle"
    /\ Iterate(c, [ctx[c] EXCEPT !.limiter = l, !.max_retries = max_retries])
    /\ UNCHANGED <<now, classified, abandoned, stopHeld, interrupted, rl,
                   stop, dispatched, starts, stopQueued, invoked, outcomes>>

\* asyncio.sleep returns: attempt += 1 and the loop goes round
Wake(c) ==
    /\ ctx[c].pc = "sleeping"
    /\ Iterate(c, [ctx[c] EXCEPT !.attempt = @ + 1])
    /\ UNCHANGED <<now, classified, abandoned, stopHeld, interrupted, rl,
                   stop, dispatched, starts, stopQueued, invoked, outcomes>>

\* an execute_with_retry that takes a cancellation for a failed attempt
OnCancelledRetry(x) ==
    [x EXCEPT !.pc = "sleeping", !.last_error = Some(NotRunningError)]

\* lines 122-125, 151-152, 175-176, 183-184, 192-193: CancelledError is
\* raised again and leaves execute_with_retry with the locals x as they are
OnCancelled(x) == [x EXCEPT !.pc = "cancelled"]

\* `await future` returns or raises (lines 121, 143-194)
FutureDone(c) ==
    LET x == ctx[c]
        l == x.limiter
        f == future[c]
    IN
    /\ x.pc = "awaiting"
    /\ f.state \in {"result", "exception", "cancelled"}
    /\ CASE f.state = "cancelled" ->
              /\ ctx' = [ctx EXCEPT ![c] = OnCancelled(@)]
              /\ UNCHANGED <<rl, sleeps, classified>>
         [] f.state = "exception" ->
              /\ Sleep(c, [x EXCEPT !.last_error = f.exception], Backoff(x.attempt))
              /\ UNCHANGED <<rl, classified>>
         [] f.state = "result" ->
              LET response == f.result[1]
                  x1 == [x EXCEPT !.last_response = Some(response)]
                  hr == HandleResponse(rl[l], response)
              IN  /\ rl' = [rl EXCEPT ![l] = hr.st]
                  /\ classified' = [classified EXCEPT ![l] =
                                       Some(Classification(rl[l], response, hr.wait))]
                  /\ IF Truthy(hr.wait)
                     THEN Sleep(c, x1, hr.wait[1])
                     ELSE IF response.status_code \in {200, 201}
                     THEN /\ ctx' = [ctx EXCEPT ![c] =
                                  [x1 EXCEPT !.pc = "returned",
                                     !.result = [returned |-> Some(response),
                                                 raised |-> None]]]
                          /\ sleeps' = sleeps
                     ELSE IF Retryable(response.status_code)
                     THEN Sleep(c, x1, Backoff(x.attempt))
                     ELSE /\ ctx' = [ctx EXCEPT ![c] =
                                  [x1 EXCEPT !.pc = "returned",
                                     !.result = [returned |-> Some(response),
                                                 raised |-> None]]]
                          /\ sleeps' = sleeps
    /\ UNCHANGED <<now, abandoned, stopHeld, interrupted, request_queue, task,
                   stop, future, puts, dispatched, starts, stopQueued,
                   invoked, outcomes, consumers>>

\* The task running execute_with_retry is cancelled at a suspension point:
\* queue_request cancels its future unless it is done (lines 122-125) and the
\* CancelledError leaves execute_with_retry (lines 151, 175, 183, 192).
CancelCaller(c) ==
    /\ ctx[c].pc \in {"awaiting", "sleeping"}
    /\ ctx' = [ctx EXCEPT ![c] = OnCancelled(@)]
    /\ future' = [future EXCEPT ![c].state =
                    IF ctx[c].pc = "awaiting" /\ @ = "pending" THEN "cancelled" ELSE @]
    /\ abandoned' = [abandoned EXCEPT ![ctx[c].limiter] =
                        IF ctx[c].pc = "awaiting"
                        THEN @ \cup {e.n : e \in {q \in Range(request_queue[ctx[c].limiter]) :
                                                   q.caller = c}}
                        ELSE @]
    /\ interrupted' = [interrupted EXCEPT ![ctx[c].limiter] =
                          IF /\ ctx[c].pc = "awaiting"
                             /\ task[ctx[c].limiter].state = "inflight"
                             /\ task[ctx[c].limiter].call[1].caller = c
                          THEN @ \cup {task[ctx[c].limiter].call[1].n}
                          ELSE @]
    /\ UNCHANGED <<now, stopHeld, classified, rl, request_queue, task, stop,
                   puts, dispatched, starts, stopQueued, invoked, sleeps,
                   outcomes, consumers>>

\* ----------------------------------------------------------- _process_queue
\* a queue that hands out the newest entry first
QueueGetNewest(q) == [item |-> q[Len(q)], rest |-> SubSeq(q, 1, Len(q) - 1)]

\* asyncio.Queue.get: the oldest entry
QueueGet(q) == [item |-> Head(q), rest |-> Tail(q)]

\* a consumer that never paces
WaitTimeNone(t, last_request_time, min_request_interval) == 0

\* lines 72-74
WaitTime(t, last_request_time, min_request_interval) ==
    Max(0, min_request_interval - (t - last_request_time))

\* line 84: the callback is invoked and the consumer awaits it
BeginOperation(l, entry) ==
    /\ task' = [task EXCEPT ![l] =
                  [state |-> "inflight", call |-> Some(entry), wake |-> 0,
                   must_cancel |-> FALSE]]
    /\ dispatched' = [dispatched EXCEPT ![l] = Append(@, entry.n)]
    /\ starts' = [starts EXCEPT ![l] =
                    IF @ = <<>> THEN <<now>> ELSE <<@[Len(@)], now>>]
    /\ invoked' = [invoked EXCEPT ![entry.caller] = @ + 1]

\* lines 62-65: asyncio.wait_for(self._request_queue.get(), 1.0).  Before
\* Python 3.12 wait_for awaits get() in a task of its own: that task takes the
\* oldest entry in a step of its own, also when the consumer has been
\* cancelled meanwhile, and the consumer resumes later.  From Python 3.12 the
\* consumer takes the entry in its own step and a cancelled consumer takes
\* none (ConsumerStops).  The timeout of wait_for only sends the loop round.
Dequeue(l) ==
    LET t == task[l]
        g == QueueGet(request_queue[l])
    IN
    /\ t.state = "polling"
    /\ request_queue[l] # <<>>
    /\ request_queue' = [request_queue EXCEPT ![l] = g.rest]
    /\ task' = [task EXCEPT ![l] =
                  [state |-> "got", call |-> Some(g.item), wake |-> 0,
                   must_cancel |-> t.must_cancel]]
    /\ UNCHANGED <<now, classified, abandoned, stopHeld, interrupted, rl,
                   stop, ctx, future, puts, dispatched, starts, stopQueued,
                   invoked, sleeps, outcomes, consumers>>

\* lines 63-84: wait_for returns the entry (it returns the result of a
\* finished get() even to a cancelled consumer, whose cancellation is lost);
\* the loop starts its pacing sleep or, with nothing to wait for, invokes the
\* callback at once
Pace(l) ==
    LET t == task[l]
        wait_time == WaitTime(now, rl[l].last_request_time, rl[l].min_request_interval)
    IN
    /\ t.state = "got"
    /\ IF wait_time > 0
       THEN /\ task' = [task EXCEPT ![l] =
                          [state |-> "pacing", call |-> t.call,
                           wake |-> now + wait_time, must_cancel |-> FALSE]]
            /\ UNCHANGED <<dispatched, starts, invoked>>
       ELSE BeginOperation(l, t.call[1])
    /\ UNCHANGED <<now, classified, abandoned, stopHeld, interrupted, rl,
                   request_queue, stop, ctx, future, puts, stopQueued, sleeps,
                   outcomes, consumers>>

\* line 78 returns
PacingElapsed(l) ==
    LET t == task[l] IN
    /\ t.state = "pacing"
    /\ ~t.must_cancel
    /\ now >= t.wake
    /\ BeginOperation(l, t.call[1])
    /\ UNCHANGED <<now, classified, abandoned, stopHeld, interrupted, rl,
                   request_queue, stop, ctx, future, puts, stopQueued, sleeps,
                   outcomes, consumers>>

\* a consumer that reports every returned response as a raised error
ResolveAsError(f, outcome, n) ==
    IF f.state = "cancelled" THEN f
    ELSE [state |-> "exception", result |-> None, exception |-> Some(ApiError(n))]

\* a consumer that sets the result whatever the state of the future
ResolveOverwrites(f, outcome, n) ==
    IF outcome = Raises
    THEN [state |-> "exception", result |-> None, exception |-> Some(ApiError(n))]
    ELSE [state |-> "result", result |-> outcome, exception |-> None]

\* lines 85-89: the result or the exception goes into the future unless
\* the future was cancelled
Resolve(f, outcome, n) ==
    IF f.state = "cancelled" THEN f
    ELSE IF outcome = Raises
    THEN [state |-> "exception", result |-> None, exception |-> Some(ApiError(n))]
    ELSE [state |-> "result", result |-> outcome, exception |-> None]

\* a consumer that hands a result to the future of another caller
FutureOfNext(entry) == (entry.caller % NumCallers) + 1

\* line 63: the future that was put on the queue with the callback
FutureOf(entry) == entry.caller

\* a consumer that takes the time before it invokes the callback
RecordDispatchStart(st, started, finished) ==
    [st EXCEPT !.last_request_time = started]

\* a consumer that also counts the call against the remaining budget
RecordDispatchSpendsBudget(st, started, finished) ==
    [st EXCEPT !.last_request_time = finished,
               !.remaining_requests = Max(0, @ - 1)]

\* line 92, in the finally of the invocation that began at `started`
RecordDispatchEnd(st, started, finished) ==
    [st EXCEPT !.last_request_time = finished]

\* a loop that ends when the caller of the call it served is gone
NextIterationUnlessCancelled(st, f) ==
    IF st.running /\ f.state # "cancelled" THEN "polling" ELSE "done"

\* line 59, after the finally of lines 90-92: the loop goes round while
\* _running, whatever became of the future f of the call it served
NextIteration(st, f) == IF st.running THEN "polling" ELSE "done"

\* lines 84-92 and 59: the awaited callback returns or raises; the loop goes
\* round and ends when _running is false
OperationCompletes(l, outcome) ==
    LET t == task[l]
        c == t.call[1].caller
    IN
    /\ t.state = "inflight"
    /\ ~t.must_cancel
    /\ future' = [future EXCEPT ![FutureOf(t.call[1])] =
                    Resolve(@, outcome, invoked[c])]
    /\ rl' = [rl EXCEPT ![l] = RecordDispatchEnd(@, Last(starts[l]), now)]
    /\ task' = [task EXCEPT ![l] =
                  [state |-> NextIteration(rl[l], future[FutureOf(t.call[1])]),
                   call |-> None, wake |-> 0, must_cancel |-> FALSE]]
    /\ outcomes' = [outcomes EXCEPT ![c] = Append(@, outcome)]
    /\ consumers' = [consumers EXCEPT ![l] =
                       IF TaskDone(task'[l]) THEN @ - 1 ELSE @]
    /\ UNCHANGED <<now, classified, abandoned, stopHeld, interrupted,
                   request_queue, stop, ctx, puts, dispatched, starts,
                   stopQueued, invoked, sleeps>>

\* The cancelled task's next step raises CancelledError where it is suspended
\* (lines 68-69, 79-80, 94-95; the finally of lines 90-92 runs when the
\* callback was being awaited).  The loop ends and the call it held stays as
\* it is.
ConsumerStops(l) ==
    LET t == task[l] IN
    /\ t.state \in {"polling", "pacing", "inflight", "recovering"}
    /\ t.must_cancel
    /\ task' = [task EXCEPT ![l] =
                  [state |-> "done", call |-> None, wake |-> 0, must_cancel |-> FALSE]]
    /\ rl' = [rl EXCEPT ![l] =
                IF t.state = "inflight"
                THEN RecordDispatchEnd(@, Last(starts[l]), now) ELSE @]
    /\ consumers' = [consumers EXCEPT ![l] =
                       IF TaskDone(task'[l]) THEN @ - 1 ELSE @]
    /\ UNCHANGED <<now, classified, abandoned, stopHeld, interrupted,
                   request_queue, stop, ctx, future, puts, dispatched, starts,
                   stopQueued, invoked, sleeps, outcomes>>

\* a consumer whose loop ends on an internal error
OnProcessorErrorFatal(t, at) ==
    [state |-> "done", call |-> None, wake |-> 0, must_cancel |-> FALSE]

\* lines 96-99: the error is logged and the loop sleeps 1 s; the entry the
\* iteration had taken is gone
OnProcessorError(t, at) ==
    [state |-> "recovering", call |-> None, wake |-> at + Sec, must_cancel |-> FALSE]

\* An exception (not a cancellation) raised in the loop body outside the
\* inner try of lines 83-92, after an entry was taken from the queue
\* (lines 63-80)
ProcessorFault(l) ==
    /\ task[l].state = "got"
    /\ task' = [task EXCEPT ![l] = OnProcessorError(@, now)]
    /\ UNCHANGED <<now, classified, abandoned, stopHeld, interrupted, rl,
                   request_queue, stop, ctx, future, puts, dispatched, starts,
                   stopQueued, invoked, sleeps, outcomes, consumers>>

\* line 99 returns and the loop goes round (line 59)
RecoveryElapsed(l) ==
    LET t == task[l] IN
    /\ t.state = "recovering"
    /\ ~t.must_cancel
    /\ now >= t.wake
    /\ task' = [task EXCEPT ![l] =
                  [state |-> IF rl[l].running THEN "polling" ELSE "done",
                   call |-> None, wake |-> 0, must_cancel |-> FALSE]]
    /\ consumers' = [consumers EXCEPT ![l] =
                       IF TaskDone(task'[l]) THEN @ - 1 ELSE @]
    /\ UNCHANGED <<now, classified, abandoned, stopHeld, interrupted, rl,
                   request_queue, stop, ctx, future, puts, dispatched, starts,
                   stopQueued, invoked, sleeps, outcomes>>

\* ------------------------------------------------------------------ cleanup
\* lines 263-264 for one drained entry
DrainFuture(f) ==
    IF f.state = "pending" THEN [f EXCEPT !.state = "cancelled"] ELSE f

\* lines 260-266
Drain(l) ==
    /\ future' = [c \in Callers |->
                    IF \E i \in DOMAIN request_queue[l] : request_queue[l][i].caller = c
                    THEN DrainFuture(future[c]) ELSE future[c]]
    /\ request_queue' = [request_queue EXCEPT ![l] = <<>>]

\* lines 245-253: up to `await self._queue_processor_task`, or straight to
\* the drain when there is no task
Cleanup(l) ==
    /\ stop[l] = "idle"
    /\ rl' = [rl EXCEPT ![l].running = FALSE]
    /\ stopQueued' = [stopQueued EXCEPT ![l] = Range(request_queue[l])]
    /\ stopHeld' = [stopHeld EXCEPT ![l] =
                       IF task[l].state \in {"pacing", "inflight"}
                       THEN {task[l].call[1]} ELSE {}]
    /\ IF task[l].state = "none"
       THEN /\ Drain(l)
            /\ stop' = [stop EXCEPT ![l] = "done"]
            /\ task' = task
       ELSE /\ task' = [task EXCEPT ![l].must_cancel = TaskAlive(task[l])]
            /\ stop' = [stop EXCEPT ![l] = "joining"]
            /\ UNCHANGED <<future, request_queue>>
    /\ UNCHANGED <<now, classified, abandoned, interrupted, ctx,
                   puts, dispatched, starts, invoked, sleeps, outcomes,
                   consumers>>

\* lines 253-266: the awaited task has ended
CleanupJoined(l) ==
    /\ stop[l] = "joining"
    /\ TaskDone(task[l])
    /\ task' = [task EXCEPT ![l] = NoTask]
    /\ Drain(l)
    /\ stop' = [stop EXCEPT ![l] = "done"]
    /\ UNCHANGED <<now, classified, abandoned, stopHeld, interrupted, rl, ctx,
                   puts, dispatched, starts, stopQueued, invoked, sleeps,
                   outcomes, consumers>>

\* ------------------------------------------- handle_response called directly
\* The fields a 429 body may carry: absent, as in the test fixture, or another
\* value; a reset that fromisoformat rejects; a retryAfter of zero or one that
\* is not a number.
LimitBurstValues == {None, Some(10)}
LimitPerSecondValues == {None, Some(DefaultRatePerSecond), Some(1)}
RemainingValues == {None, Some(5)}
ResetValues == {None, Some(MockReset), Some(InvalidReset)}
RetryAfterValues == {None, Some(Number(MockRetryAfter)), Some(Number(0)), Some(NotANumber)}

ThrottlePayloads ==
    {Payload(lb, lps, rem, rst, ra) :
        lb \in LimitBurstValues, lps \in LimitPerSecondValues,
        rem \in RemainingValues, rst \in ResetValues, ra \in RetryAfterValues}

Responses ==
    {Resp(429, p) : p \in ThrottlePayloads \cup {Undecodable, MockRateLimitPayload}}
    \cup {Ok200, Created201, NotFound404, ServerError500}

\* await rate_limiter.handle_response(response), as the tests call it
HandleResponseCall(l, response) ==
    LET hr == HandleResponse(rl[l], response) IN
    /\ rl' = [rl EXCEPT ![l] = hr.st]
    /\ classified' = [classified EXCEPT ![l] =
                         Some(Classification(rl[l], response, hr.wait))]
    /\ UNCHANGED <<now, abandoned, stopHeld, interrupted, request_queue, task,
                   stop, ctx, future, puts, dispatched, starts, stopQueued,
                   invoked, sleeps, outcomes, consumers>>

\* -------------------------------------------------------------------- clock
Tick ==
    /\ now < StartTime + MaxTicks * TickStep
    /\ now' = now + TickStep
    /\ UNCHANGED <<rl, request_queue, task, stop, ctx, future, puts,
                   classified, abandoned, stopHeld, interrupted, dispatched,
                   starts, stopQueued, invoked, sleeps, outcomes, consumers>>

\* time goes on while the consumer is in its pacing sleep (line 78), also
\* beyond the horizon of Tick
SleepTick(l) ==
    /\ task[l].state = "pacing"
    /\ now < task[l].wake
    /\ now' = now + TickStep
    /\ UNCHANGED <<rl, request_queue, task, stop, ctx, future, puts,
                   classified, abandoned, stopHeld, interrupted, dispatched,
                   starts, stopQueued, invoked, sleeps, outcomes, consumers>>

\* ----------------------------------------------------------- specifications
\* Every step that can be taken by the callers C, which pass a max_retries
\* of M, the schedulers L, and a remote service whose operations end in one
\* of the outcomes O.
Schedule(C, M, L, O) ==
    \/ \E c \in C, l \in L, m \in M : ExecuteWithRetry(c, l, m)
    \/ \E c \in C : Wake(c)
    \/ \E c \in C : FutureDone(c)
    \/ \E c \in C : CancelCaller(c)
    \/ \E l \in L : Dequeue(l)
    \/ \E l \in L : Pace(l)
    \/ \E l \in L : PacingElapsed(l)
    \/ \E l \in L, o \in O : OperationCompletes(l, o)
    \/ \E l \in L : ConsumerStops(l)
    \/ \E l \in L : Cleanup(l)
    \/ \E l \in L : CleanupJoined(l)
    \/ Tick

\* concurrent callers sharing one scheduler
Next == Schedule(Callers, 0..MaxRetriesArg, {1}, {Raises, Returns(Ok200)})
Spec == Init /\ [][Next]_vars

\* one execute_with_retry call against a service that may answer anything
NextRetry == Schedule({1}, 0..MaxRetriesArg, {1}, AllOutcomes)
SpecRetry == Init /\ [][NextRetry]_vars

\* the managers of src/game, each with the RateLimiter its __init__ creates
NextManagers == Schedule(Callers, {1}, AllLimiters, {Returns(Ok200)})
SpecManagers == Init /\ [][NextManagers]_vars

\* one execute_with_retry call against a service that throttles, with
\* bodies that parse and bodies that do not
NextThrottle ==
    Schedule({1}, 1..MaxRetriesArg, {1},
             {Raises, Returns(Ok200), Returns(RateLimited429), Returns(Malformed429)})
SpecThrottle == Init /\ [][NextThrottle]_vars

\* one execute_with_retry call against a service whose 429 responses carry a
\* retryAfter of 1.5 s or of 0
NextHint ==
    Schedule({1}, 1..MaxRetriesArg, {1},
             {Returns(Ok200), Returns(RateLimited429), Returns(ZeroHint429)})
SpecHint == Init /\ [][NextHint]_vars

\* concurrent callers sharing one scheduler of a service that throttles
NextShared ==
    Schedule(Callers, {2}, {1}, {Returns(Ok200), Returns(RateLimited429)})
SpecShared == Init /\ [][NextShared]_vars

\* concurrent single-attempt calls on a scheduler whose consumer loop can
\* hit an internal error
NextFaulty ==
    \/ Schedule(Callers, {1}, {1}, {Returns(Ok200)})
    \/ ProcessorFault(1)
    \/ RecoveryElapsed(1)
SpecFaulty == Init /\ [][NextFaulty]_vars

\* concurrent single-attempt calls on one scheduler whose consumer task is
\* scheduled whenever it can run, whose operations end, and whose sleeps
\* elapse
NextLive ==
    \/ Schedule(Callers, {1}, {1}, {Raises, Returns(Ok200)})
    \/ SleepTick(1)
SpecLive ==
    /\ Init
    /\ [][NextLive]_vars
    /\ WF_vars(Dequeue(1))
    /\ WF_vars(Pace(1))
    /\ WF_vars(PacingElapsed(1))
    /\ WF_vars(SleepTick(1))
    /\ WF_vars(\E o \in {Raises, Returns(Ok200)} : OperationCompletes(1, o))

\* the response classifier on its own, fed any sequence of responses
NextClassify == \E r \in Responses : HandleResponseCall(1, r)
SpecClassify == Init /\ [][NextClassify]_vars

\* -------------------------------------------------------------- properties
Resolved(c) == ctx[c].pc \in {"returned", "raised"}
MinInterval == min_request_interval_of(DefaultRatePerSecond)

\* C1: on one scheduler the k-th callback invoked is the k-th call that was
\* put on the queue, for every k: calls are invoked in put order and none
\* overtakes an earlier one.
FifoDispatch ==
    \A l \in AllLimiters :
        \A k \in DOMAIN dispatched[l] : dispatched[l][k] = k

\* three calls of two callers have been invoked and another one is queued
FifoDispatchWitness ==
    /\ Len(dispatched[1]) >= 3
    /\ invoked[1] >= 1
    /\ invoked[2] >= 1
    /\ request_queue[1] # <<>>

\* C2: at most one remote operation is in flight at any time in the whole
\* program, whichever managers submit calls.
SingleFlight ==
    Cardinality({l \in AllLimiters : task[l].state = "inflight"}) <= 1

\* C3: two consecutive invocations by one consumer start at least
\* min_request_interval (0.5 s at the rate 2) apart.
PacingGap ==
    \A l \in AllLimiters :
        Len(starts[l]) = 2 => starts[l][2] - starts[l][1] >= MinInterval

\* a second invocation that started exactly one interval after the first
PacingGapWitness ==
    \E l \in AllLimiters :
        /\ Len(starts[l]) = 2
        /\ starts[l][2] - starts[l][1] = MinInterval

\* C4: a call with max_retries = 3 whose operation raised every time, on a
\* scheduler that was never stopped, ends with 3 invocations, the sleeps
\* 1 s and 2 s and no other, and a terminal error that names task_name and
\* max_retries and has the last raised error as its cause.
RetryExhaustion ==
    \A c \in Callers :
        ( /\ Resolved(c)
          /\ ctx[c].max_retries = DefaultMaxRetries
          /\ stop[ctx[c].limiter] = "idle"
          /\ outcomes[c] # <<>>
          /\ \A i \in DOMAIN outcomes[c] : outcomes[c][i] = Raises )
        => /\ invoked[c] = DefaultMaxRetries
           /\ sleeps[c] = <<Pow2(0) * Sec, Pow2(1) * Sec>>
           /\ ctx[c].result.raised =
                Some([message |-> [task_name |-> ctx[c].task_name,
                                   attempts |-> DefaultMaxRetries,
                                   no_response |-> FALSE],
                      cause |-> Some(ApiError(DefaultMaxRetries))])

\* C5: when the first invocation returns 200, 201 or a 4xx other than 429,
\* the operation is invoked once, nothing is slept, and the call returns
\* that response (unless its caller was cancelled first).
Immediate(outcome) ==
    /\ outcome # Raises
    /\ \/ outcome[1].status_code \in {200, 201}
       \/ /\ 400 <= outcome[1].status_code
          /\ outcome[1].status_code < 500
          /\ outcome[1].status_code # 429

ImmediateReturn ==
    \A c \in Callers :
        (outcomes[c] # <<>> /\ Immediate(outcomes[c][1]))
        => /\ invoked[c] = 1
           /\ sleeps[c] = <<>>
           /\ \/ ctx[c].pc = "cancelled"
              \/ ctx[c].pc = "awaiting" /\ future[c].result = outcomes[c][1]
              \/ /\ ctx[c].pc = "returned"
                 /\ ctx[c].result.returned = outcomes[c][1]

\* a call that returned the 404 of its only invocation
ImmediateReturnWitness ==
    \E c \in Callers :
        /\ ctx[c].pc = "returned"
        /\ outcomes[c] = <<Returns(NotFound404)>>
        /\ ctx[c].result.returned = Some(NotFound404)

\* C6: a call whose last permitted attempt returned a 5xx response returns
\* that response and does not raise, whatever the earlier attempts did.
ServerErrorIsData ==
    \A c \in Callers :
        ( /\ Resolved(c)
          /\ ctx[c].max_retries >= 1
          /\ Len(outcomes[c]) = ctx[c].max_retries
          /\ Last(outcomes[c]) # Raises
          /\ Last(outcomes[c])[1].status_code >= 500
          /\ Last(outcomes[c])[1].status_code < 600 )
        => /\ ctx[c].pc = "returned"
           /\ ctx[c].result.returned = Last(outcomes[c])

\* C7: no caller is left waiting on a result handle that nothing will
\* resolve: once cleanup() has finished (the consumer task has ended, the
\* queue is drained and queue_request accepts nothing), no
\* execute_with_retry call is still awaiting a pending future.
NoCallerLeftWaiting ==
    \A c \in Callers :
        ~ ( /\ ctx[c].pc = "awaiting"
            /\ future[c].state = "pending"
            /\ stop[ctx[c].limiter] = "done" )

\* C8: every call that was in the queue when cleanup() was called is never
\* invoked afterwards, and when cleanup() has finished its future is
\* cancelled.
StopDrainsQueued ==
    \A l \in AllLimiters :
        \A e \in stopQueued[l] :
            /\ e.n \notin Range(dispatched[l])
            /\ stop[l] = "done" => future[e.caller].state = "cancelled"

\* C9: a call with max_retries = 0 on a running scheduler invokes its
\* operation exactly once before it resolves.
ZeroRetriesOneAttempt ==
    \A c \in Callers :
        ( /\ Resolved(c)
          /\ ctx[c].max_retries = 0
          /\ stop[ctx[c].limiter] = "idle" )
        => invoked[c] = 1

\* C10: with max_retries >= 1 the operation is invoked at most max_retries
\* times: the attempt counter never passes max_retries and every invocation
\* belongs to a loop iteration of its own.
BoundedAttempts ==
    \A c \in Callers :
        ctx[c].max_retries >= 1
        => /\ invoked[c] <= ctx[c].max_retries
           /\ ctx[c].attempt <= ctx[c].max_retries
           /\ invoked[c] <= ctx[c].attempt + 1

\* three attempts that ended in a 429, a 5xx and a raised error
BoundedAttemptsWitness ==
    \E c \in Callers :
        /\ Resolved(c)
        /\ ctx[c].max_retries = DefaultMaxRetries
        /\ invoked[c] = DefaultMaxRetries
        /\ outcomes[c] = <<Returns(RateLimited429), Returns(ServerError500), Raises>>

\* C11: a call whose operation returned k >= 1 consecutive 429 responses and
\* then a 200 or 201, with k < max_retries, returns that success response
\* and has invoked its operation exactly k + 1 times.
Throttled(outcome) == outcome # Raises /\ outcome[1].status_code = 429
Succeeded(outcome) == outcome # Raises /\ outcome[1].status_code \in {200, 201}

ThrottleRecovery ==
    \A c \in Callers :
        LET k == Len(outcomes[c]) - 1 IN
        ( /\ Resolved(c)
          /\ k >= 1
          /\ k < ctx[c].max_retries
          /\ \A i \in 1..k : Throttled(outcomes[c][i])
          /\ Succeeded(outcomes[c][k + 1]) )
        => /\ ctx[c].pc = "returned"
           /\ ctx[c].result.returned = outcomes[c][k + 1]
           /\ invoked[c] = k + 1

\* two rate-limited invocations, then a success that was returned
ThrottleRecoveryWitness ==
    \E c \in Callers :
        /\ ctx[c].pc = "returned"
        /\ outcomes[c] = <<Returns(RateLimited429), Returns(RateLimited429),
                           Returns(Ok200)>>
        /\ ctx[c].result.returned = Some(Ok200)
        /\ invoked[c] = 3

\* the latest handle_response call on limiter l, when there was one
Classified(l) == classified[l] # None
LastCall(l) == classified[l][1]
Is429(l) == LastCall(l).response.status_code = 429

\* a 429 body that handle_response reads to the end: it decodes, its reset
\* is absent or a timestamp, its retryAfter is absent or a number
Parses(content) ==
    /\ content.decodable
    /\ content.reset # None => FromIsoFormat(content.reset[1]) # None
    /\ content.retryAfter # None => content.retryAfter[1].numeric

\* C12: classifying a 429 whose payload parses and carries retryAfter
\* returns wait = retryAfter x (the multiplier before the call) and leaves
\* the multiplier at min(1.5 x that multiplier, 5.0); from 1.0 with retryAfter
\* 1.5 that is wait 1.5 and multiplier 1.5, and from 1.5 it is wait 2.25 and
\* multiplier 2.25.
ThrottleBackoffGrowth ==
    \A l \in AllLimiters :
        ( /\ Classified(l)
          /\ Is429(l)
          /\ Parses(LastCall(l).response.content)
          /\ LastCall(l).response.content.retryAfter # None )
        => LET m == LastCall(l).before.backoff_multiplier
               ra == LastCall(l).response.content.retryAfter[1].value
               wait == LastCall(l).wait
               after == rl[l].backoff_multiplier
           IN  /\ wait # None
               /\ wait[1] * Sec = ra * m
               /\ 2 * after = Min(3 * m, 2 * MultiplierCap * Sec)
               /\ (m = Sec /\ 2 * ra = 3 * Sec)
                  => (2 * wait[1] = 3 * Sec /\ 2 * after = 3 * Sec)
               /\ (2 * m = 3 * Sec /\ 2 * ra = 3 * Sec)
                  => (4 * wait[1] = 9 * Sec /\ 4 * after = 9 * Sec)

\* the second of two consecutive 429 responses with retryAfter 1.5
ThrottleBackoffGrowthWitness ==
    /\ Classified(1)
    /\ LastCall(1).response = RateLimited429
    /\ 2 * LastCall(1).before.backoff_multiplier = 3 * Sec
    /\ LastCall(1).wait = Some((9 * Sec) \div 4)
    /\ 4 * rl[1].backoff_multiplier = 9 * Sec

\* C13: in every reachable state 1.0 <= backoff_multiplier <= 5.0, and every
\* 429 that is classified leaves the multiplier strictly larger than it was
\* unless it was already at the cap of 5.0.
MultiplierBounds ==
    \A l \in AllLimiters :
        /\ Sec <= rl[l].backoff_multiplier
        /\ rl[l].backoff_multiplier <= MultiplierCap * Sec
        /\ (Classified(l) /\ Is429(l))
           => \/ rl[l].backoff_multiplier > LastCall(l).before.backoff_multiplier
              \/ /\ LastCall(l).before.backoff_multiplier = MultiplierCap * Sec
                 /\ rl[l].backoff_multiplier = MultiplierCap * Sec

\* C14: classifying a response that is not a 429 (200, 201, an ordinary 4xx
\* or a 5xx) returns no wait and leaves backoff_multiplier at exactly 1.0,
\* whatever it was before.
BackoffReset ==
    \A l \in AllLimiters :
        (Classified(l) /\ ~Is429(l))
        => /\ LastCall(l).wait = None
           /\ rl[l].backoff_multiplier = Sec

\* a 5xx classified after 429 responses had raised the multiplier to the cap
BackoffResetWitness ==
    /\ Classified(1)
    /\ LastCall(1).response = ServerError500
    /\ LastCall(1).before.backoff_multiplier = MultiplierCap * Sec
    /\ rl[1].backoff_multiplier = Sec

\* the latest response of caller c has gone through lines 143-154
Handled(c) ==
    \/ ctx[c].pc \in {"sleeping", "returned", "raised"}
    \/ ctx[c].pc = "awaiting" /\ future[c].state = "pending"

\* the server's hint in a 429 body, 1.0 s when the body carries none
Hint(content) ==
    IF content.retryAfter # None /\ content.retryAfter[1].numeric
    THEN content.retryAfter[1].value
    ELSE DefaultRetryAfter * Sec

\* C15: on a scheduler that was not stopped, a 429 response is followed by a
\* sleep of (server hint x the multiplier before it was classified) and,
\* while attempts remain, by another attempt; a call whose operation only
\* ever returned 429 responses does not raise.
ThrottleAlwaysRetried ==
    \A c \in Callers :
        LET n == Len(outcomes[c])
            l == ctx[c].limiter
        IN  ( /\ n >= 1
              /\ Throttled(outcomes[c][n])
              /\ Handled(c)
              /\ stop[l] = "idle" )
            => /\ Len(sleeps[c]) >= n
               /\ sleeps[c][n] * Sec =
                    Hint(outcomes[c][n][1].content)
                    * LastCall(l).before.backoff_multiplier
               /\ n < ctx[c].max_retries => ~Resolved(c)
               /\ (\A i \in 1..n : Throttled(outcomes[c][i]))
                  => ctx[c].pc # "raised"

\* C16: classifying a 429 whose payload does not parse (undecodable or
\* absent body, invalid reset timestamp, non-numeric retryAfter) returns a
\* wait and leaves burst_limit, rate_per_second, remaining_requests and
\* reset_time exactly as they were before the call.
ParseFailureHarmless ==
    \A l \in AllLimiters :
        ( /\ Classified(l)
          /\ Is429(l)
          /\ ~Parses(LastCall(l).response.content) )
        => /\ LastCall(l).wait # None
           /\ rl[l].burst_limit = LastCall(l).before.burst_limit
           /\ rl[l].rate_per_second = LastCall(l).before.rate_per_second
           /\ rl[l].remaining_requests = LastCall(l).before.remaining_requests
           /\ rl[l].reset_time = LastCall(l).before.reset_time

\* C17: classifying a 429 whose payload does not parse returns the wait
\* 1.0 s x (the multiplier before the call) and leaves the multiplier at
\* min(1.5 x that multiplier, 5.0), as for a 429 that parses.
ParseFailureBackoff ==
    \A l \in AllLimiters :
        ( /\ Classified(l)
          /\ Is429(l)
          /\ ~Parses(LastCall(l).response.content) )
        => LET m == LastCall(l).before.backoff_multiplier IN
           /\ LastCall(l).wait = Some(DefaultRetryAfter * m)
           /\ 2 * rl[l].backoff_multiplier = Min(3 * m, 2 * MultiplierCap * Sec)

\* C18: when a 429 payload parses but omits limitBurst, limitPerSecond,
\* remaining or reset, the field of the limiter keeps the value it had; an
\* omitted retryAfter counts as 1.0 s.
AbsentFieldsKeep ==
    \A l \in AllLimiters :
        ( /\ Classified(l)
          /\ Is429(l)
          /\ Parses(LastCall(l).response.content) )
        => LET p == LastCall(l).response.content
               b == LastCall(l).before
           IN  /\ p.limitBurst = None => rl[l].burst_limit = b.burst_limit
               /\ p.limitPerSecond = None => rl[l].rate_per_second = b.rate_per_second
               /\ p.remaining = None => rl[l].remaining_requests = b.remaining_requests
               /\ p.reset = None => rl[l].reset_time = b.reset_time
               /\ p.retryAfter = None
                  => LastCall(l).wait = Some(DefaultRetryAfter * b.backoff_multiplier)

\* C19: after classifying a 429 whose payload parses and carries every
\* field, burst_limit, rate_per_second and remaining_requests are the
\* payload's limitBurst, limitPerSecond and remaining, and reset_time is the
\* instant its reset names.
Complete(content) ==
    /\ content.limitBurst # None
    /\ content.limitPerSecond # None
    /\ content.remaining # None
    /\ content.reset # None
    /\ content.retryAfter # None

VerbatimUpdate ==
    \A l \in AllLimiters :
        ( /\ Classified(l)
          /\ Is429(l)
          /\ Parses(LastCall(l).response.content)
          /\ Complete(LastCall(l).response.content) )
        => LET p == LastCall(l).response.content IN
           /\ rl[l].burst_limit = p.limitBurst[1]
           /\ rl[l].rate_per_second = p.limitPerSecond[1]
           /\ rl[l].remaining_requests = p.remaining[1]
           /\ p.reset = Some(MockReset)
              => rl[l].reset_time = Some(DateTime(2024, 1, 1, 0))

\* a complete payload that changed all four fields of a fresh limiter
VerbatimUpdateWitness ==
    /\ Classified(1)
    /\ LastCall(1).before = Limits(InitLimiter)
    /\ LastCall(1).response =
         Resp(429, Payload(Some(10), Some(1), Some(5), Some(MockReset),
                           Some(Number(MockRetryAfter))))
    /\ rl[1].burst_limit = 10
    /\ rl[1].rate_per_second = 1
    /\ rl[1].remaining_requests = 5
    /\ rl[1].reset_time # None

\* C20: in every reachable state min_request_interval = 1 / rate_per_second,
\* also after a 429 payload has changed rate_per_second.
MinIntervalTracksRate ==
    \A l \in AllLimiters :
        rl[l].min_request_interval * rl[l].rate_per_second = Sec

\* C21: every future holds what its own call's invocation did (the response
\* it returned or the error it raised, never another call's), and while the
\* scheduler is not stopped every call that awaits its future is eventually
\* dispatched and its future resolved.
OwnResult ==
    \A c \in Callers :
        /\ future[c].state = "result"
           => /\ outcomes[c] # <<>>
              /\ future[c].result = Last(outcomes[c])
        /\ future[c].state = "exception"
           => /\ outcomes[c] # <<>>
              /\ Last(outcomes[c]) = Raises
              /\ future[c].exception = Some(ApiError(invoked[c]))

ServedWithOwnResult ==
    /\ []OwnResult
    /\ \A c \in Callers :
          (ctx[c].pc = "awaiting" /\ future[c].state = "pending")
          ~> \/ future[c].state # "pending" /\ invoked[c] >= 1
             \/ future[c].state = "cancelled"
             \/ stop[ctx[c].limiter] # "idle"

\* two concurrently enqueued calls, one returned its response and the other
\* raised its own error
ServedWithOwnResultWitness ==
    /\ dispatched[1] = <<1, 2>>
    /\ ctx[1].pc = "returned"
    /\ ctx[1].result.returned = Some(Ok200)
    /\ ctx[2].pc = "raised"
    /\ ctx[2].result.raised # None
    /\ ctx[2].result.raised[1].cause = Some(ApiError(1))
    /\ stop[1] = "idle"

\* C22: a call whose caller was cancelled while its entry was still in the
\* queue is never invoked afterwards (and so takes no dispatch slot and
\* delays no later call by a pacing interval).
AbandonedNeverInvoked ==
    \A l \in AllLimiters :
        \A n \in abandoned[l] : n \notin Range(dispatched[l])

\* C23: burst_limit, rate_per_second, remaining_requests, reset_time and
\* backoff_multiplier change only in a step that runs handle_response, to
\* what handle_response makes of them; every other step (enqueue, dequeue,
\* dispatch, sleeps, an attempt that raised, cleanup) leaves them as they
\* are; and every response returned to execute_with_retry is classified in
\* the step that receives it.
Quota(st) ==
    [burst_limit |-> st.burst_limit, rate_per_second |-> st.rate_per_second,
     remaining_requests |-> st.remaining_requests, reset_time |-> st.reset_time,
     backoff_multiplier |-> st.backoff_multiplier]

ReceivesResponse(c) ==
    /\ ctx[c].pc = "awaiting"
    /\ future[c].state = "result"
    /\ ctx'[c].pc \in {"sleeping", "returned"}

OnlyClassifierWrites ==
    [][ /\ \A l \in AllLimiters :
             \/ Quota(rl'[l]) = Quota(rl[l]) /\ classified'[l] = classified[l]
             \/ \E c \in Callers :
                   /\ ctx[c].limiter = l
                   /\ ReceivesResponse(c)
                   /\ ctx'[c].last_response = future[c].result
        /\ \A c \in Callers :
             ReceivesResponse(c)
             => LET l == ctx[c].limiter IN
                /\ classified'[l] # None
                /\ classified'[l][1].before = Limits(rl[l])
                /\ classified'[l][1].response = future[c].result[1]
                /\ Quota(rl'[l]) = Quota(HandleResponse(rl[l], future[c].result[1]).st)
      ]_vars

\* a 429 has been classified and changed the quota, and the call then went
\* through a raised error and its backoff sleep
OnlyClassifierWritesWitness ==
    \E c \in Callers :
        /\ Len(outcomes[c]) >= 2
        /\ outcomes[c][1] = Returns(RateLimited429)
        /\ outcomes[c][2] = Raises
        /\ ctx[c].pc = "sleeping"
        /\ ctx[c].last_error # None
        /\ Quota(rl[ctx[c].limiter]) # Quota(InitLimiter)

\* C24: on a scheduler that was not stopped, a call sleeps its 2^attempt
\* backoff after an attempt that raised or returned a 5xx response only
\* when another attempt remains; after the last permitted attempt it
\* resolves without sleeping.
ServerError(outcome) ==
    /\ outcome # Raises
    /\ outcome[1].status_code >= 500
    /\ outcome[1].status_code < 600

NoBackoffAfterLastAttempt ==
    \A c \in Callers :
        ( /\ ctx[c].pc = "sleeping"
          /\ stop[ctx[c].limiter] = "idle"
          /\ outcomes[c] # <<>>
          /\ Last(outcomes[c]) = Raises \/ ServerError(Last(outcomes[c])) )
        => ctx[c].attempt + 1 < ctx[c].max_retries

\* C25: on a scheduler that was not stopped, the sleep that follows a 429
\* response is exactly the delay handle_response returned for it, for every
\* retryAfter including 0, and not the 2^attempt backoff.
ThrottleWaitIsClassifierDelay ==
    \A c \in Callers :
        LET n == Len(outcomes[c])
            l == ctx[c].limiter
        IN  ( /\ n >= 1
              /\ Throttled(outcomes[c][n])
              /\ Handled(c)
              /\ stop[l] = "idle" )
            => /\ LastCall(l).wait # None
               /\ Len(sleeps[c]) >= n
               /\ sleeps[c][n] = LastCall(l).wait[1]

\* C26: an exception other than a cancellation raised inside an iteration
\* of the consumer loop does not end the loop: the consumer task ends only
\* after cleanup() was called, and the calls still queued are dispatched
\* afterwards in put order.
ConsumerSurvives ==
    \A l \in AllLimiters :
        /\ TaskDone(task[l]) => stop[l] # "idle"
        /\ \A i, j \in DOMAIN dispatched[l] :
             i < j => dispatched[l][i] < dispatched[l][j]

\* the iteration that had taken the first call failed, and the second call
\* was dispatched and served afterwards
ConsumerSurvivesWitness ==
    /\ puts[1] = 2
    /\ dispatched[1] = <<2>>
    /\ stop[1] = "idle"
    /\ task[1].state = "polling"
    /\ \E c \in Callers : ctx[c].pc = "returned"

\* C27: last_request_time is written exactly when an invocation ends
\* (the operation returned or raised, whether or not its caller had
\* cancelled), and it is then the time of that end, not of the start.
LastRequestTimeAtEnd ==
    [][ \A l \in AllLimiters :
          /\ (task[l].state = "inflight" /\ task'[l].state # "inflight")
             => /\ rl'[l].last_request_time = now
                /\ rl'[l].last_request_time >= Last(starts[l])
          /\ rl'[l].last_request_time # rl[l].last_request_time
             => task[l].state = "inflight"
      ]_vars

\* an operation whose caller had cancelled ended some time after it began
LastRequestTimeAtEndWitness ==
    \E c \in Callers :
        /\ ctx[c].pc = "cancelled"
        /\ future[c].state = "cancelled"
        /\ Len(outcomes[c]) = 1
        /\ dispatched[1] = <<1>>
        /\ task[1].state = "polling"
        /\ rl[1].last_request_time = now
        /\ rl[1].last_request_time > Last(starts[1])

\* C28: however often start_queue_processor is called by concurrent
\* enqueues, at most one consumer loop per scheduler is alive in every
\* reachable state: a task is created only when there is none or the
\* previous one has ended.
SingleConsumer ==
    \A l \in AllLimiters :
        /\ consumers[l] <= 1
        /\ consumers[l] = IF TaskAlive(task[l]) THEN 1 ELSE 0

\* a second enqueue found the consumer of the first one alive, with an
\* operation in flight, and started no other
SingleConsumerWitness ==
    /\ puts[1] >= 2
    /\ task[1].state = "inflight"
    /\ request_queue[1] # <<>>
    /\ consumers[1] = 1

\* the step of caller c that puts a call in the queue of scheduler 1: the
\* first iteration of execute_with_retry or the one after a sleep
Enqueue(c) ==
    /\ \/ \E m \in 1..MaxRetriesArg : ExecuteWithRetry(c, 1, m)
       \/ Wake(c)
    /\ puts'[1] = puts[1] + 1

\* caller c sleeps on the delay the classifier returned for a 429
ThrottleSleep(c) ==
    /\ ctx[c].pc = "sleeping"
    /\ ctx[c].last_error = None
    /\ ctx[c].last_response # None
    /\ ctx[c].last_response[1].status_code = 429

\* C29: while the scheduler is running, the enqueue step of a caller that
\* has a call to make is enabled whatever the consumer does (polling, pacing
\* sleep, operation in flight) and whatever the other callers do (awaiting,
\* backoff or throttle sleep); and the consumer's next step towards the
\* dispatch of a queued call is enabled whatever the callers do.
EnqueueNeverBlocks ==
    /\ \A c \in Callers :
          ( /\ rl[1].running
            /\ \/ ctx[c].pc = "idle"
               \/ /\ ctx[c].pc = "sleeping"
                  /\ AttemptsRemain(ctx[c].attempt + 1, ctx[c].max_retries) )
          => ENABLED Enqueue(c)
    /\ rl[1].running =>
          /\ (task[1].state = "polling" /\ request_queue[1] # <<>>)
                => ENABLED Dequeue(1)
          /\ task[1].state = "got" => ENABLED Pace(1)
          /\ (task[1].state = "pacing" /\ now >= task[1].wake)
                => ENABLED PacingElapsed(1)

\* caller 1 is in its throttle sleep with an attempt left, the call of
\* caller 2 is in flight, and caller 1 can enqueue its next attempt
EnqueueNeverBlocksWitness ==
    /\ rl[1].running
    /\ ThrottleSleep(1)
    /\ AttemptsRemain(ctx[1].attempt + 1, ctx[1].max_retries)
    /\ task[1].state = "inflight"
    /\ task[1].call[1].caller = 2
    /\ ENABLED Enqueue(1)

\* the consumer of scheduler l ends the operation of a call whose caller was
\* cancelled while it was in flight
EndsInterrupted(l) ==
    /\ task[l].state = "inflight"
    /\ ~task[l].must_cancel
    /\ task[l].call[1].n \in interrupted[l]
    /\ task'[l].state # "inflight"

\* C30: when a caller is cancelled while its operation is in flight, the
\* consumer finishes the operation and goes round its loop (it neither
\* fails nor stops while the scheduler is running), the queue and the
\* futures of the other callers are left as they are, the calls are still
\* invoked in put order, every future holds its own call's result, and
\* every other call awaiting its future is eventually dispatched and
\* resolved unless it is cancelled or the scheduler is stopped.
CancelInFlightHarmless ==
    /\ [][\A l \in {1} :
            EndsInterrupted(l)
            => /\ task'[l].state = IF rl[l].running THEN "polling" ELSE "done"
               /\ request_queue'[l] = request_queue[l]
               /\ future'[task[l].call[1].caller].state = "cancelled"
               /\ \A d \in Callers \ {task[l].call[1].caller} :
                     future'[d] = future[d]]_vars
    /\ [](interrupted[1] # {} =>
            /\ \A k \in DOMAIN dispatched[1] : dispatched[1][k] = k
            /\ OwnResult
            /\ (rl[1].running => TaskAlive(task[1])))
    /\ \A c \in Callers :
          (interrupted[1] # {} /\ ctx[c].pc = "awaiting"
             /\ future[c].state = "pending")
          ~> \/ future[c].state \in {"result", "exception"} /\ invoked[c] >= 1
             \/ future[c].state = "cancelled"
             \/ stop[1] # "idle"

\* caller 1 was cancelled while its operation, the first put, was in flight;
\* the consumer ended it and then served the call of caller 2, put second,
\* which returned its own response
CancelInFlightHarmlessWitness ==
    /\ interrupted[1] = {1}
    /\ ctx[1].pc = "cancelled"
    /\ future[1].state = "cancelled"
    /\ outcomes[1] # <<>>
    /\ dispatched[1] = <<1, 2>>
    /\ ctx[2].pc = "returned"
    /\ ctx[2].result.returned = Some(Ok200)
    /\ TaskAlive(task[1])
    /\ stop[1] = "idle"

\* C31: the call the consumer held, in its pacing sleep or with its
\* operation in flight, when cleanup() was called is not left pending: once
\* cleanup() has finished, its caller is not awaiting a pending future.
StopResolvesHeldCall ==
    \A l \in AllLimiters :
        \A e \in stopHeld[l] :
            stop[l] = "done"
            => ~ ( /\ ctx[e.caller].pc = "awaiting"
                   /\ future[e.caller].state = "pending" )

\* C32: once cleanup() has been called on a scheduler (_running is false),
\* no step puts an entry on its queue, no step invokes an operation, and an
\* execute_with_retry that ended on the "not running" error raised the
\* terminal error that names its task.
StoppedRejectsWork ==
    /\ [][\A l \in AllLimiters :
            ~rl[l].running
            => /\ puts'[l] = puts[l]
               /\ Len(request_queue'[l]) <= Len(request_queue[l])
               /\ dispatched'[l] = dispatched[l]]_vars
    /\ [](\A c \in Callers :
            (ctx[c].pc = "raised" /\ ctx[c].last_error = Some(NotRunningError))
            => /\ ctx[c].result.raised # None
               /\ ctx[c].result.raised[1].message.task_name = ctx[c].task_name
               /\ ctx[c].result.raised[1].cause = Some(NotRunningError))

\* the step leaves execute_with_retry of caller c by the cancellation: no
\* attempt is counted, nothing is slept and nothing is put on a queue
Propagates(c) ==
    /\ ctx'[c] = [ctx[c] EXCEPT !.pc = "cancelled"]
    /\ sleeps'[c] = sleeps[c]
    /\ puts' = puts

\* C33: a cancellation is never retried.  The step an execute_with_retry
\* takes when the future it awaits is cancelled (by cleanup's drain or by
\* the caller), and every step that cancels it in the queue wait or in a
\* sleep, propagates the cancellation; and a cancelled execute_with_retry
\* takes no further step: no attempt, no sleep, no new queue entry.
CancellationNotRetried ==
    [][\A c \in Callers :
         /\ ( /\ ctx[c].pc = "awaiting"
              /\ future[c].state = "cancelled"
              /\ ctx'[c] # ctx[c] ) => Propagates(c)
         /\ ( /\ ctx[c].pc = "awaiting"
              /\ future[c].state = "pending"
              /\ future'[c].state = "cancelled"
              /\ ctx'[c] # ctx[c] ) => Propagates(c)
         /\ (ctx[c].pc # "cancelled" /\ ctx'[c].pc = "cancelled")
              => Propagates(c)
         /\ ctx[c].pc = "cancelled"
              => /\ ctx'[c] = ctx[c]
                 /\ sleeps'[c] = sleeps[c]
                 /\ \A l \in AllLimiters :
                       {e \in Range(request_queue'[l]) : e.caller = c}
                          \subseteq Range(request_queue[l])]_vars

\* caller 1 was cancelled in the backoff sleep after its first attempt had
\* raised; the call of caller 2 was in the queue when cleanup() was called,
\* cleanup's drain cancelled its future and caller 2 left with the
\* cancellation; both had attempts left
CancellationNotRetriedWitness ==
    /\ ctx[1].pc = "cancelled"
    /\ future[1].state = "exception"
    /\ sleeps[1] = <<Backoff(0)>>
    /\ ctx[1].attempt = 0
    /\ AttemptsRemain(1, ctx[1].max_retries)
    /\ ctx[2].pc = "cancelled"
    /\ future[2].state = "cancelled"
    /\ stop[1] = "done"
    /\ abandoned[1] = {}
    /\ \E e \in stopQueued[1] : e.caller = 2 /\ e.n \notin Range(dispatched[1])
    /\ sleeps[2] = <<>>
    /\ ctx[2].attempt = 0
    /\ AttemptsRemain(1, ctx[2].max_retries)

Assigned(f) == f.state \in {"result", "exception", "cancelled"}

\* the entries of scheduler l that are in its queue or held by its consumer
Held(l) == IF task[l].call = None THEN {} ELSE {task[l].call[1].n}
Queued(l) == {request_queue[l][i].n : i \in DOMAIN request_queue[l]}

\* C34: every call put on a queue is taken from it at most once and its
\* operation is invoked at most once (no put number is twice in the queue,
\* both in the queue and with the consumer, or twice among the invocations,
\* and a call still in the queue has not been invoked); a future holds
\* exactly one of a value, an error or a cancellation; and a future that
\* has been assigned is never assigned again: it changes only when its
\* caller replaces it with the fresh future of a new call, so the consumer
\* writes nothing into a cancelled one.
AtMostOnce ==
    /\ [](\A l \in AllLimiters :
            /\ \A i, j \in DOMAIN request_queue[l] :
                  request_queue[l][i].n = request_queue[l][j].n => i = j
            /\ \A i, j \in DOMAIN dispatched[l] :
                  dispatched[l][i] = dispatched[l][j] => i = j
            /\ Queued(l) \cap Held(l) = {}
            /\ Queued(l) \cap Range(dispatched[l]) = {}
            /\ Range(dispatched[l]) \cup Held(l) \cup Queued(l) \subseteq 1..puts[l])
    /\ [](\A c \in Callers :
            /\ future[c].state = "result"
                 <=> future[c].result # None /\ future[c].exception = None
            /\ future[c].state = "exception"
                 <=> future[c].result = None /\ future[c].exception # None)
    /\ [][\A c \in Callers :
            (Assigned(future[c]) /\ future'[c] # future[c])
            => /\ ctx[c].pc # "awaiting"
               /\ ctx'[c].pc = "awaiting"
               /\ future'[c].state = "pending"
               /\ puts'[ctx'[c].limiter] = puts[ctx'[c].limiter] + 1]_vars

\* the caller of the first call was cancelled while its operation was in
\* flight; the operation returned a response and the future stayed
\* cancelled; the second call was then invoked and its future holds its
\* response
AtMostOnceWitness ==
    /\ interrupted[1] = {1}
    /\ future[1].state = "cancelled"
    /\ outcomes[1] = <<Returns(Ok200)>>
    /\ dispatched[1] = <<1, 2>>
    /\ future[2].state = "result"
    /\ invoked = [c \in Callers |-> 1]

====
